---- MODULE Spec2Model ----
(***************************************************************************)
(* Byte-pair-encoding tokenizer of bpe_tokenizer_wikitext.py: the corpus   *)
(* framing (join with "[SEP]", split on it), the training loop             *)
(* (byte_pair_encoding), the pair counter (get_byte_pair_frequency), the   *)
(* merge applier (merge_byte_pair) and the stack decoder                   *)
(* (decode_byte_pair).                                                     *)
(*                                                                         *)
(* A text is a sequence of Unicode code points, a byte string a sequence   *)
(* of integers 0..255.  A Python dict is a sequence of entries in         *)
(* insertion order, which is the order Python iterates it in.              *)
(***************************************************************************)
EXTENDS Integers, Sequences, FiniteSets, TLC

VARIABLES
    texts,              \* argument of byte_pair_encoding: the blocks
    num_merges,         \* argument of byte_pair_encoding
    pc,                 \* position in the script (lines 134-137)
    err,                \* the exception that ended the run, or "none"
    complete_text,      \* line 55: the joined bytes
    byte_text,          \* lines 57, 72: the working sequence
    token_id,           \* lines 58, 70: the id counter
    merge_map,          \* lines 59, 69: entries <<pair, id>> in insertion order
    k,                  \* number of loop iterations of line 61 that merged
    most_frequent_pair, \* line 66 (and the pair argument of merge_byte_pair)
    new_sequence,       \* lines 90, 102: what merge_byte_pair returns
    reverse_merge_map,  \* line 108
    encoded_sequence,   \* argument of decode_byte_pair
    stack,              \* line 109 (top of the stack = end of the sequence)
    decoded_sequence,   \* line 110
    decoded,            \* line 136: the decoded text
    text_blocks         \* line 137

vars == <<texts, num_merges, pc, err, complete_text, byte_text, token_id,
          merge_map, k, most_frequent_pair, new_sequence, reverse_merge_map,
          encoded_sequence, stack, decoded_sequence, decoded, text_blocks>>

----------------------------------------------------------------------------
(* Bounds of the model *)

MaxBlocks == 2
MaxBlockLen == 2
MaxMerges == 2
MaxSeqLen == 4

\* the blocks: every string of 'a' and 'b' up to MaxBlockLen, and two blocks
\* with U+00E9, whose UTF-8 encoding has two bytes
Chars == {97, 98}
Blocks == UNION {[1..n -> Chars] : n \in 0..MaxBlockLen} \cup {<<233>>, <<97, 233>>}
Texts == UNION {[1..n -> Blocks] : n \in 0..MaxBlocks}

\* values of num_merges: negative, a few, and more than any sequence allows
NumMerges == {-1} \cup (0..MaxMerges) \cup {1000}

\* inputs of merge_byte_pair called on its own
MergeTokens == {7, 8}
MergeSeqs == UNION {[1..n -> MergeTokens] : n \in 0..MaxSeqLen}
MergeNewTokens == {300}

\* tokens a corrupted encoded sequence may hold: 'd', a UTF-8 lead byte, and
\* a value no byte has
CorruptTokens == {100, 200, 300}

----------------------------------------------------------------------------
(* Sequence helpers *)

RECURSIVE Concat(_)
Concat(ss) == IF ss = <<>> THEN <<>> ELSE Head(ss) \o Concat(Tail(ss))

Reverse(s) == [i \in 1..Len(s) |-> s[Len(s) + 1 - i]]

Elems(s) == {s[i] : i \in 1..Len(s)}

MaxOf(S) == CHOOSE x \in S : \A y \in S : y <= x

\* does t occur in s starting at position i (1-based)
OccursAt(s, t, i) ==
    /\ i + Len(t) - 1 <= Len(s)
    /\ \A j \in 1..Len(t) : s[i + j - 1] = t[j]

----------------------------------------------------------------------------
(* str.encode("utf-8") and bytes.decode("utf-8") *)

Utf8Char(cp) ==
    IF cp < 128 THEN <<cp>>
    ELSE IF cp < 2048 THEN <<192 + (cp \div 64), 128 + (cp % 64)>>
    ELSE IF cp < 65536 THEN
        <<224 + (cp \div 4096), 128 + ((cp \div 64) % 64), 128 + (cp % 64)>>
    ELSE <<240 + (cp \div 262144), 128 + ((cp \div 4096) % 64),
           128 + ((cp \div 64) % 64), 128 + (cp % 64)>>

Utf8Encode(text) == Concat([i \in 1..Len(text) |-> Utf8Char(text[i])])

IsCont(b) == b >= 128 /\ b <= 191

\* the number of bytes of the well-formed UTF-8 character that starts bs,
\* 0 when bs starts with none
Utf8Width(bs) ==
    LET b0 == bs[1]
        n  == Len(bs)
    IN IF b0 < 128 THEN 1
       ELSE IF b0 >= 194 /\ b0 <= 223
            THEN IF n >= 2 /\ IsCont(bs[2]) THEN 2 ELSE 0
       ELSE IF b0 >= 224 /\ b0 <= 239
            THEN IF /\ n >= 3 /\ IsCont(bs[2]) /\ IsCont(bs[3])
                    /\ (b0 = 224 => bs[2] >= 160)
                    /\ (b0 = 237 => bs[2] <= 159)
                 THEN 3 ELSE 0
       ELSE IF b0 >= 240 /\ b0 <= 244
            THEN IF /\ n >= 4 /\ IsCont(bs[2]) /\ IsCont(bs[3]) /\ IsCont(bs[4])
                    /\ (b0 = 240 => bs[2] >= 144)
                    /\ (b0 = 244 => bs[2] <= 143)
                 THEN 4 ELSE 0
       ELSE 0

Utf8CodePoint(bs, w) ==
    IF w = 1 THEN bs[1]
    ELSE IF w = 2 THEN (bs[1] - 192) * 64 + (bs[2] - 128)
    ELSE IF w = 3 THEN (bs[1] - 224) * 4096 + (bs[2] - 128) * 64 + (bs[3] - 128)
    ELSE (bs[1] - 240) * 262144 + (bs[2] - 128) * 4096
         + (bs[3] - 128) * 64 + (bs[4] - 128)

\* [ok, text]: ok is FALSE where Python raises UnicodeDecodeError
RECURSIVE Utf8Decode(_)
Utf8Decode(bs) ==
    IF bs = <<>> THEN [ok |-> TRUE, text |-> <<>>]
    ELSE LET w == Utf8Width(bs)
         IN IF w = 0 THEN [ok |-> FALSE, text |-> <<>>]
            ELSE LET rest == Utf8Decode(SubSeq(bs, w + 1, Len(bs)))
                 IN [ok |-> rest.ok,
                     text |-> IF rest.ok
                              THEN <<Utf8CodePoint(bs, w)>> \o rest.text
                              ELSE <<>>]

\* bytes(list) raises ValueError unless every element is in range(0, 256)
IsBytes(s) == \A i \in 1..Len(s) : s[i] >= 0 /\ s[i] <= 255

----------------------------------------------------------------------------
(* Corpus framing *)

SEP_TOKEN == <<91, 83, 69, 80, 93>>     \* "[SEP]"
SEP_TOKEN_BYTES == Utf8Encode(SEP_TOKEN)

\* bytes.join: the separator between consecutive items only
RECURSIVE Join(_, _)
Join(sep, items) ==
    IF items = <<>> THEN <<>>
    ELSE IF Len(items) = 1 THEN items[1]
    ELSE items[1] \o sep \o Join(sep, Tail(items))

JoinTexts(ts) == Join(SEP_TOKEN_BYTES, [i \in 1..Len(ts) |-> Utf8Encode(ts[i])])

\* str.split(sep): cut at the non-overlapping occurrences, leftmost first
RECURSIVE SplitFrom(_, _, _, _)
SplitFrom(s, sep, start, i) ==
    IF i + Len(sep) - 1 > Len(s) THEN <<SubSeq(s, start, Len(s))>>
    ELSE IF OccursAt(s, sep, i)
         THEN <<SubSeq(s, start, i - 1)>>
              \o SplitFrom(s, sep, i + Len(sep), i + Len(sep))
         ELSE SplitFrom(s, sep, start, i + 1)

split_on_sep(decoded_text) == SplitFrom(decoded_text, SEP_TOKEN, 1, 1)

----------------------------------------------------------------------------
(* Dicts as sequences of entries <<key, value>> in insertion order *)

HasKey(d, key) == \E i \in 1..Len(d) : d[i][1] = key

Get(d, key) == d[CHOOSE i \in 1..Len(d) : d[i][1] = key][2]

Values(d) == {d[i][2] : i \in 1..Len(d)}

\* d[key] = value: a new key goes last, an old key keeps its place
Put(d, key, value) ==
    IF HasKey(d, key)
    THEN [i \in 1..Len(d) |-> IF d[i][1] = key THEN <<key, value>> ELSE d[i]]
    ELSE Append(d, <<key, value>>)

----------------------------------------------------------------------------
(* get_byte_pair_frequency *)

RECURSIVE PairLoop(_, _, _)
PairLoop(byte_sequence, i, pairs) ==
    IF i > Len(byte_sequence) - 1 THEN pairs
    ELSE LET pair == <<byte_sequence[i], byte_sequence[i + 1]>>
             old  == IF HasKey(pairs, pair) THEN Get(pairs, pair) ELSE 0
         IN PairLoop(byte_sequence, i + 1, Put(pairs, pair, old + 1))

get_byte_pair_frequency(byte_sequence) == PairLoop(byte_sequence, 1, <<>>)

\* min in place of max
MinKey(pairs) ==
    LET best == CHOOSE i \in 1..Len(pairs) :
                    \A j \in 1..Len(pairs) : pairs[i][2] <= pairs[j][2]
    IN pairs[best][1]

\* max(pairs, key=pairs.get): the first key, in iteration order, whose value
\* no other value exceeds
MaxKey(pairs) ==
    LET best == CHOOSE i \in 1..Len(pairs) :
                    /\ \A j \in 1..Len(pairs) : pairs[j][2] <= pairs[i][2]
                    /\ \A j \in 1..(i - 1) : pairs[j][2] < pairs[i][2]
    IN pairs[best][1]

----------------------------------------------------------------------------
(* merge_byte_pair *)

RECURSIVE MergeLoop(_, _, _, _, _)
MergeLoop(byte_sequence, pair, new_token, i, new_seq) ==
    IF ~(i <= Len(byte_sequence)) THEN new_seq
    ELSE IF /\ i < Len(byte_sequence)
            /\ <<byte_sequence[i], byte_sequence[i + 1]>> = pair
         THEN MergeLoop(byte_sequence, pair, new_token, i + 2,
                        Append(new_seq, new_token))
         ELSE MergeLoop(byte_sequence, pair, new_token, i + 1,
                        Append(new_seq, byte_sequence[i]))

\* the scan run from the right end
merge_from_right(byte_sequence, pair, new_token) ==
    LET rev == [i \in 1..Len(byte_sequence) |->
                   byte_sequence[Len(byte_sequence) + 1 - i]]
        out == MergeLoop(rev, <<pair[2], pair[1]>>, new_token, 1, <<>>)
    IN [i \in 1..Len(out) |-> out[Len(out) + 1 - i]]

\* only the first occurrence is merged
RECURSIVE merge_first_only(_, _, _)
merge_first_only(byte_sequence, pair, new_token) ==
    IF Len(byte_sequence) < 2 THEN byte_sequence
    ELSE IF <<byte_sequence[1], byte_sequence[2]>> = pair
         THEN <<new_token>> \o SubSeq(byte_sequence, 3, Len(byte_sequence))
         ELSE <<byte_sequence[1]>>
              \o merge_first_only(Tail(byte_sequence), pair, new_token)

merge_byte_pair(byte_sequence, pair, new_token) ==
    MergeLoop(byte_sequence, pair, new_token, 1, <<>>)

----------------------------------------------------------------------------
(* byte_pair_encoding *)

\* the largest byte itself
InitialTokenIdNoIncrement(bytes) == MaxOf(Elems(bytes))

\* line 58
InitialTokenId(bytes) == MaxOf(Elems(bytes)) + 1

\* the counter is not advanced
NextTokenIdStuck(id) == id

\* line 70
NextTokenId(id) == id + 1

\* one iteration too many
LoopContinuesOffByOne(n, merges) == n <= merges

\* line 61: for _ in range(num_merges), after n iterations
LoopContinues(n, merges) == n < merges

Init ==
    /\ texts \in Texts
    /\ num_merges \in NumMerges
    /\ pc = "encode"
    /\ err = "none"
    /\ complete_text = <<>>
    /\ byte_text = <<>>
    /\ token_id = 0
    /\ merge_map = <<>>
    /\ k = 0
    /\ most_frequent_pair = <<>>
    /\ new_sequence = <<>>
    /\ reverse_merge_map = <<>>
    /\ encoded_sequence = <<>>
    /\ stack = <<>>
    /\ decoded_sequence = <<>>
    /\ decoded = <<>>
    /\ text_blocks = <<>>

\* lines 55-59
Encode ==
    /\ pc = "encode"
    /\ JoinTexts(texts) # <<>>
    /\ complete_text' = JoinTexts(texts)
    /\ byte_text' = complete_text'
    /\ token_id' = InitialTokenId(byte_text')
    /\ merge_map' = <<>>
    /\ pc' = "train"
    /\ UNCHANGED <<texts, num_merges, err, k, most_frequent_pair, new_sequence,
                   reverse_merge_map, encoded_sequence, stack,
                   decoded_sequence, decoded, text_blocks>>

\* lines 55-58 on an empty byte string: max() of an empty list raises ValueError
EncodeEmpty ==
    /\ pc = "encode"
    /\ JoinTexts(texts) = <<>>
    /\ complete_text' = <<>>
    /\ byte_text' = <<>>
    /\ pc' = "error"
    /\ err' = "ValueError"
    /\ UNCHANGED <<texts, num_merges, token_id, merge_map, k,
                   most_frequent_pair, new_sequence, reverse_merge_map,
                   encoded_sequence, stack, decoded_sequence, decoded,
                   text_blocks>>

\* lines 61-74: one iteration that merges
TrainStep ==
    /\ pc = "train"
    /\ LoopContinues(k, num_merges)
    /\ \E pairs \in {get_byte_pair_frequency(byte_text)} :
          /\ pairs # <<>>
          /\ most_frequent_pair' = MaxKey(pairs)
    /\ IF ~HasKey(merge_map, most_frequent_pair')
       THEN /\ merge_map' = Put(merge_map, most_frequent_pair', token_id)
            /\ token_id' = NextTokenId(token_id)
       ELSE /\ merge_map' = merge_map
            /\ token_id' = token_id
    /\ byte_text' = merge_byte_pair(byte_text, most_frequent_pair',
                                    Get(merge_map', most_frequent_pair'))
    /\ k' = k + 1
    /\ UNCHANGED <<texts, num_merges, pc, err, complete_text, new_sequence,
                   reverse_merge_map, encoded_sequence, stack,
                   decoded_sequence, decoded, text_blocks>>

\* lines 63-64: no pair is left
TrainBreak ==
    /\ pc = "train"
    /\ LoopContinues(k, num_merges)
    /\ get_byte_pair_frequency(byte_text) = <<>>
    /\ pc' = "trained"
    /\ UNCHANGED <<texts, num_merges, err, complete_text, byte_text, token_id,
                   merge_map, k, most_frequent_pair, new_sequence,
                   reverse_merge_map, encoded_sequence, stack,
                   decoded_sequence, decoded, text_blocks>>

\* lines 61, 76: the range is exhausted
TrainReturn ==
    /\ pc = "train"
    /\ ~LoopContinues(k, num_merges)
    /\ pc' = "trained"
    /\ UNCHANGED <<texts, num_merges, err, complete_text, byte_text, token_id,
                   merge_map, k, most_frequent_pair, new_sequence,
                   reverse_merge_map, encoded_sequence, stack,
                   decoded_sequence, decoded, text_blocks>>

----------------------------------------------------------------------------
(* decode_byte_pair *)

\* line 108: {v: k for k, v in merge_map.items()}
RECURSIVE ReverseLoop(_, _, _)
ReverseLoop(map, i, rev) ==
    IF i > Len(map) THEN rev
    ELSE ReverseLoop(map, i + 1, Put(rev, map[i][2], map[i][1]))

ReverseMap(map) == ReverseLoop(map, 1, <<>>)

\* the constituents pushed in the order they are read
PushPairFirstThenSecond(stk, first, second) == Append(Append(stk, first), second)

\* lines 116-117
PushPair(stk, first, second) == Append(Append(stk, second), first)

\* lines 108-110, on the arguments encoded and map
DecodeEnter(encoded, map) ==
    /\ encoded_sequence' = encoded
    /\ reverse_merge_map' = ReverseMap(map)
    /\ stack' = Reverse(encoded)
    /\ decoded_sequence' = <<>>
    /\ pc' = "decode"
    /\ UNCHANGED <<texts, num_merges, err, complete_text, byte_text, token_id,
                   merge_map, k, most_frequent_pair, new_sequence, decoded,
                   text_blocks>>

\* line 136
DecodeStart ==
    /\ pc = "trained"
    /\ DecodeEnter(byte_text, merge_map)

\* lines 112-119: one iteration of the stack loop
DecodeStep ==
    /\ pc = "decode"
    /\ stack # <<>>
    /\ LET token == stack[Len(stack)]
           rest == SubSeq(stack, 1, Len(stack) - 1)
       IN IF HasKey(reverse_merge_map, token)
          THEN /\ stack' = PushPair(rest, Get(reverse_merge_map, token)[1],
                                    Get(reverse_merge_map, token)[2])
               /\ decoded_sequence' = decoded_sequence
          ELSE /\ stack' = rest
               /\ decoded_sequence' = Append(decoded_sequence, token)
    /\ UNCHANGED <<texts, num_merges, pc, err, complete_text, byte_text,
                   token_id, merge_map, k, most_frequent_pair, new_sequence,
                   reverse_merge_map, encoded_sequence, decoded, text_blocks>>

\* line 121: bytes(decoded_sequence).decode("utf-8")
DecodeReturn ==
    /\ pc = "decode"
    /\ stack = <<>>
    /\ IF ~IsBytes(decoded_sequence)
       THEN /\ pc' = "error"
            /\ err' = "ValueError"
            /\ decoded' = decoded
       ELSE IF ~Utf8Decode(decoded_sequence).ok
       THEN /\ pc' = "error"
            /\ err' = "UnicodeDecodeError"
            /\ decoded' = decoded
       ELSE /\ pc' = "decoded"
            /\ err' = err
            /\ decoded' = Utf8Decode(decoded_sequence).text
    /\ UNCHANGED <<texts, num_merges, complete_text, byte_text, token_id,
                   merge_map, k, most_frequent_pair, new_sequence,
                   reverse_merge_map, encoded_sequence, stack,
                   decoded_sequence, text_blocks>>

\* line 137
Split ==
    /\ pc = "decoded"
    /\ text_blocks' = split_on_sep(decoded)
    /\ pc' = "done"
    /\ UNCHANGED <<texts, num_merges, err, complete_text, byte_text, token_id,
                   merge_map, k, most_frequent_pair, new_sequence,
                   reverse_merge_map, encoded_sequence, stack,
                   decoded_sequence, decoded>>

Next ==
    \/ Encode
    \/ EncodeEmpty
    \/ TrainStep
    \/ TrainBreak
    \/ TrainReturn
    \/ DecodeStart
    \/ DecodeStep
    \/ DecodeReturn
    \/ Split

Spec == Init /\ [][Next]_vars

\* the stack loop of the decoder runs on while the stack holds a token
FairSpec == Spec /\ WF_vars(DecodeStep)

----------------------------------------------------------------------------
(* merge_byte_pair called on its own, on any sequence, pair and new token *)

InitMerge ==
    /\ texts = <<>>
    /\ num_merges = 0
    /\ pc = "merge"
    /\ err = "none"
    /\ complete_text = <<>>
    /\ byte_text \in MergeSeqs
    /\ token_id \in MergeNewTokens
    /\ merge_map = <<>>
    /\ k = 0
    /\ most_frequent_pair \in MergeTokens \X MergeTokens
    /\ new_sequence = <<>>
    /\ reverse_merge_map = <<>>
    /\ encoded_sequence = <<>>
    /\ stack = <<>>
    /\ decoded_sequence = <<>>
    /\ decoded = <<>>
    /\ text_blocks = <<>>

\* lines 87-102
MergeCall ==
    /\ pc = "merge"
    /\ new_sequence' = merge_byte_pair(byte_text, most_frequent_pair, token_id)
    /\ pc' = "merged"
    /\ UNCHANGED <<texts, num_merges, err, complete_text, byte_text, token_id,
                   merge_map, k, most_frequent_pair, reverse_merge_map,
                   encoded_sequence, stack, decoded_sequence, decoded,
                   text_blocks>>

SpecMerge == InitMerge /\ [][MergeCall]_vars

----------------------------------------------------------------------------
(* decode_byte_pair called on an encoded sequence one of whose tokens was
   replaced by a token that is no byte of the text and no id of the map *)

Unknown(token) ==
    /\ token \notin Elems(complete_text)
    /\ token \notin Values(merge_map)

DecodeCorrupted ==
    /\ pc = "trained"
    /\ \E p \in 1..Len(byte_text), c \in CorruptTokens :
          /\ Unknown(c)
          /\ DecodeEnter([byte_text EXCEPT ![p] = c], merge_map)

NextCorrupt ==
    \/ Next
    \/ DecodeCorrupted

SpecCorrupt == Init /\ [][NextCorrupt]_vars

----------------------------------------------------------------------------
(* Vocabulary of the properties *)

\* the largest byte of the initial sequence
MaxByte == MaxOf(Elems(complete_text))

Min(a, b) == IF a <= b THEN a ELSE b

\* sliding-window count of the adjacent pair q in seq, overlaps included
Count(seq, q) ==
    Cardinality({i \in 1..(Len(seq) - 1) : <<seq[i], seq[i + 1]>> = q})

AdjacentPairs(seq) == {<<seq[i], seq[i + 1]>> : i \in 1..(Len(seq) - 1)}

IsPrefix(s, t) == Len(s) <= Len(t) /\ SubSeq(t, 1, Len(s)) = s

Contains(s, t) == \E i \in 1..Len(s) : OccursAt(s, t, i)

NoSeparatorInside(ts) == \A i \in 1..Len(ts) : ~Contains(ts[i], SEP_TOKEN)

\* one left-to-right scan: the pair at the front becomes new_id and both of
\* its elements are consumed, anything else is copied
RECURSIVE Scan(_, _, _)
Scan(seq, pair, new_id) ==
    IF seq = <<>> THEN <<>>
    ELSE IF Len(seq) >= 2 /\ seq[1] = pair[1] /\ seq[2] = pair[2]
         THEN <<new_id>> \o Scan(Tail(Tail(seq)), pair, new_id)
         ELSE <<seq[1]>> \o Scan(Tail(seq), pair, new_id)

DecodeEnded == (pc = "decode" /\ stack = <<>>) \/ pc \in {"decoded", "done"}

AB == <<97, 98>>

----------------------------------------------------------------------------
(* C1: training a non-empty byte sequence with num_merges >= 0 and expanding
   the result with the stack procedure gives back exactly the initial bytes,
   and neither step fails. *)
C1_RoundTripBytes ==
    (complete_text # <<>> /\ num_merges >= 0) =>
        /\ pc # "error"
        /\ DecodeEnded => decoded_sequence = complete_text

C1_Witness ==
    /\ pc = "decode"
    /\ stack = <<>>
    /\ k >= 2
    /\ Len(byte_text) < Len(complete_text)
    /\ decoded_sequence = complete_text

(* C2: for every sequence of blocks none of which contains the separator,
   the empty sequence and sequences of empty blocks included, and every
   num_merges, the pipeline ends without an error and returns the blocks. *)
C2_FullPipelineRoundTrip ==
    NoSeparatorInside(texts) =>
        /\ pc # "error"
        /\ pc = "done" => text_blocks = texts

(* C2, the part the code keeps: when the joined bytes are not empty the
   pipeline ends without an error and returns the blocks. *)
C2_NonEmptyRoundTrip ==
    (NoSeparatorInside(texts) /\ JoinTexts(texts) # <<>>) =>
        /\ pc # "error"
        /\ pc = "done" => text_blocks = texts

(* C3 as stated: every id of the merge map is greater than 255. *)
C3_IdsAbove255 ==
    \A i \in 1..Len(merge_map) : merge_map[i][2] > 255

(* C3 amended: every id of the merge map, and so every token of the working
   sequence that is no byte of the initial sequence, is greater than the
   largest byte of the initial sequence (not, in general, than 255). *)
C3_IdsAboveInitialBytes ==
    complete_text # <<>> =>
        /\ \A v \in Values(merge_map) : v > MaxByte
        /\ \A t \in Elems(byte_text) :
              t \notin Elems(complete_text) =>
                  t \in Values(merge_map) /\ t > MaxByte

C3_Witness ==
    /\ merge_map # <<>>
    /\ \E t \in Elems(byte_text) : t \in Values(merge_map) /\ t <= 255

(* C4: the counter starts at max(initial sequence) + 1; the ids of the map,
   in insertion order, are strictly increasing (so distinct), each above
   every byte of the initial sequence, the counter above all of them; and no
   entry of the map is ever removed or remapped. *)
C4_FreshIncreasingIds ==
    /\ [](complete_text # <<>> =>
            /\ k = 0 => token_id = MaxByte + 1
            /\ \A i, j \in 1..Len(merge_map) :
                  i < j => merge_map[i][2] < merge_map[j][2]
            /\ \A i \in 1..Len(merge_map) :
                  /\ \A b \in Elems(complete_text) : merge_map[i][2] > b
                  /\ token_id > merge_map[i][2])
    /\ [][/\ Len(merge_map') >= Len(merge_map)
          /\ \A i \in 1..Len(merge_map) : merge_map'[i] = merge_map[i]]_vars

C4_Witness ==
    /\ Len(merge_map) >= 2
    /\ merge_map[1][2] < merge_map[2][2]
    /\ token_id > merge_map[2][2]

(* C5: the pair an iteration merges has, in the sequence the iteration
   starts with, a sliding-window count no other adjacent pair exceeds; for
   the blocks "ab", "ab" (9 bytes joined) the first entry is the pair (a, b). *)
C5_GreedySelection ==
    /\ [][k' = k + 1 =>
            /\ most_frequent_pair' \in AdjacentPairs(byte_text)
            /\ \A q \in AdjacentPairs(byte_text) :
                  Count(byte_text, most_frequent_pair') >= Count(byte_text, q)
            /\ byte_text' = Scan(byte_text, most_frequent_pair',
                                 Get(merge_map', most_frequent_pair'))]_vars
    /\ []((texts = <<AB, AB>> /\ pc # "encode") =>
            /\ Len(complete_text) = 9
            /\ merge_map # <<>> => merge_map[1][1] = AB)

\* the merged pair is not the first pair of the sequence, and is more
\* frequent than it
C5_Witness ==
    /\ k = 1
    /\ most_frequent_pair # <<complete_text[1], complete_text[2]>>
    /\ Count(complete_text, most_frequent_pair) >= 2

(* C6: merge_byte_pair returns what one left-to-right scan gives that emits
   the new token for the pair and skips both elements, and copies anything
   else; of three equal elements the first two are merged; the input is left
   as it was. *)
C6_LeftmostMerge ==
    /\ [](pc = "merged" =>
            /\ new_sequence = Scan(byte_text, most_frequent_pair, token_id)
            /\ (byte_text = <<7, 7, 7>> /\ most_frequent_pair = <<7, 7>>
                /\ token_id = 300) => new_sequence = <<300, 7>>)
    /\ [][byte_text' = byte_text]_vars

C6_Witness ==
    /\ pc = "merged"
    /\ byte_text = <<7, 7, 7>>
    /\ most_frequent_pair = <<7, 7>>
    /\ new_sequence = <<300, 7>>

(* C7: on n >= 1 bytes with num_merges >= 0 training raises no error and
   makes at most min(num_merges, n - 1) merging iterations, every step of the
   loop being such an iteration or the end of the loop; an iteration merges
   only a sequence of two or more tokens and shortens it; the map ends with
   at most min(num_merges, n - 1) entries (at most one for two bytes and
   num_merges = 1000). *)
C7_EarlyTermination ==
    /\ []((complete_text # <<>> /\ num_merges >= 0) =>
            /\ pc # "error"
            /\ k <= Min(num_merges, Len(complete_text) - 1)
            /\ Len(merge_map) <= Min(num_merges, Len(complete_text) - 1)
            /\ Len(byte_text) <= Len(complete_text) - k
            /\ (Len(complete_text) = 2 /\ num_merges = 1000) =>
                  Len(merge_map) <= 1)
    /\ [][k' = k + 1 =>
            Len(byte_text) >= 2 /\ Len(byte_text') < Len(byte_text)]_vars
    /\ [][pc = "train" => (pc' = "train" /\ k' = k + 1) \/ pc' = "trained"]_vars

\* two bytes, a thousand merges asked for: one merge, then no pair is left
C7_Witness ==
    /\ pc = "trained"
    /\ Len(complete_text) = 2
    /\ num_merges = 1000
    /\ k = 1
    /\ Len(merge_map) = 1
    /\ Len(byte_text) = 1

(* C8: decoding an encoded sequence that holds a token which is neither a
   byte of the text nor an id of the merge map ends in an error. *)
C8_UnknownTokenIsError ==
    (pc # "decode" /\ \E i \in 1..Len(encoded_sequence) :
                          Unknown(encoded_sequence[i]))
        => pc = "error"

(* C9: no two adjacent elements of the working sequence form a pair that is
   a key of the merge map, so the selected pair is never a key already and
   the map has one entry per merging iteration. *)
C9_MergedPairNeverReappears ==
    /\ \A q \in AdjacentPairs(byte_text) : ~HasKey(merge_map, q)
    /\ Len(merge_map) = k

C9_Witness ==
    /\ k >= 3
    /\ Len(byte_text) >= 2
    /\ Len(merge_map) = 3

(* C10: every entry (a, b) -> id of a trained map has a < id and b < id, and
   the stack loop of the decoder, started on the trained sequence, empties
   the stack, having put out the bytes in their original order. *)
C10_DecodeTerminates ==
    /\ [](\A i \in 1..Len(merge_map) :
            /\ merge_map[i][1][1] < merge_map[i][2]
            /\ merge_map[i][1][2] < merge_map[i][2])
    /\ [](pc = "decode" => IsPrefix(decoded_sequence, complete_text))
    /\ (pc = "decode") ~> (pc = "decode" /\ stack = <<>>)

\* the decoder is in the middle of expanding an id made of ids
C10_Witness ==
    /\ pc = "decode"
    /\ stack # <<>>
    /\ decoded_sequence # <<>>
    /\ \E i \in 1..Len(merge_map) :
          /\ merge_map[i][1][1] \in Values(merge_map)
          /\ merge_map[i][2] \in Elems(encoded_sequence)

====
